---- MODULE Spec2Model ----
(***************************************************************************)
(* Model of 5000.py: the Producto catalog, the two-key comparator          *)
(* comparar_productos, merge_sort / mezclar, analizar_datos and the main   *)
(* pipeline (leer_csv -> preview -> analizar_datos -> merge_sort ->        *)
(* mostrar_mejores_productos -> guardar_resultados).                       *)
(*                                                                         *)
(* Python objects live in two heaps: `heap` maps a Producto reference to   *)
(* its fields, `lists` maps a list reference to its contents (a sequence   *)
(* of Producto references).  Two lists are the same Python object exactly  *)
(* when their references are equal.                                        *)
(*                                                                         *)
(* Prices are modelled as exact numbers (integers): a float NaN is not a   *)
(* value of the model.                                                     *)
(*                                                                         *)
(* Spec     : the functions called directly on an arbitrary catalog.       *)
(* MainSpec : main() run on an arbitrary productos.csv.                    *)
(***************************************************************************)
EXTENDS Integers, Sequences, FiniteSets, TLC

VARIABLES
    pc,                  \* position of the caller / of main()
    archivo,             \* productos.csv: Missing or the sequence of its rows
    heap,                \* Producto reference -> fields
    lists,               \* list reference -> sequence of Producto references
    productos,           \* reference of the list returned by leer_csv (the sort input)
    productos_ordenados, \* reference of the list returned by merge_sort, or None
    reordenados,         \* reference of the list returned by a second merge_sort, or None
    analisis,            \* what analizar_datos computed, or None
    cmp,                 \* results of comparar_productos per pair of references, or None
    error,               \* the exception that ended the run, or None
    llamadas,            \* the functions invoked so far, in order
    consola,             \* what was printed, as tags
    salida               \* productos_ordenados.csv: NoFile or the rows written

vars == <<pc, archivo, heap, lists, productos, productos_ordenados, reordenados,
          analisis, cmp, error, llamadas, consola, salida>>

None == "None"

\* A file: does it exist, and its rows after the header.
Missing == [existe |-> FALSE, filas |-> <<>>]
File(filas) == [existe |-> TRUE, filas |-> filas]
NoFile == Missing

\* A row whose numeric fields do not parse.
Malformed == [valida |-> FALSE, precio |-> 0, calificacion |-> 0]

\* Bounds of the model.
MaxLen == 4       \* longest catalog handed to the functions in Spec
MaxPrecio == 1    \* prices 0..MaxPrecio in Spec
NumCalif == 2     \* the NumCalif highest ratings are used in Spec
MaxRows == 5      \* longest productos.csv in MainSpec

\* Program constants.
MaxCalif == 5     \* highest key of the calificaciones histogram
PreviewN == 5     \* main prints productos[0..4] before sorting
TopN == 25        \* mostrar_mejores_productos(productos_ordenados, 25)

Precios == 0..MaxPrecio
Calificaciones == (MaxCalif - NumCalif + 1)..MaxCalif

\* Rows a productos.csv may hold: parsed fields, in or out of the data
\* model's domains, or a row whose numeric fields do not parse.
FilePrecios == {-1, 1}
FileCalificaciones == {4, 5, 6}
FileRows ==
    [valida : {TRUE}, precio : FilePrecios, calificacion : FileCalificaciones]
        \cup {Malformed}

Producto(id, nombre, precio, calificacion, stock) ==
    [id |-> id, nombre |-> nombre, precio |-> precio,
     calificacion |-> calificacion, stock |-> stock]

----------------------------------------------------------------------------
(* comparar_productos *)

comparar_productos_precio_invertido(a, b) ==
    IF a.calificacion # b.calificacion THEN b.calificacion - a.calificacion
    ELSE IF a.precio # b.precio THEN b.precio - a.precio
    ELSE 0

comparar_productos(a, b) ==
    IF a.calificacion # b.calificacion THEN b.calificacion - a.calificacion
    ELSE IF a.precio # b.precio THEN a.precio - b.precio
    ELSE 0

----------------------------------------------------------------------------
(* mezclar *)

\* The test of the merge loop: emit the left head?
toma_izquierda_estricta(izquierda, derecha, i, j) ==
    comparar_productos(heap[izquierda[i + 1]], heap[derecha[j + 1]]) < 0

toma_izquierda_invertida(izquierda, derecha, i, j) ==
    comparar_productos(heap[izquierda[i + 1]], heap[derecha[j + 1]]) >= 0

toma_izquierda(izquierda, derecha, i, j) ==
    comparar_productos(heap[izquierda[i + 1]], heap[derecha[j + 1]]) <= 0

\* s[k:] for a 0-based index k
Desde(s, k) == SubSeq(s, k + 1, Len(s))

\* The two extends after the loop.
agregar_restantes_sin_derecha(resultado, izquierda, derecha, i, j) ==
    resultado \o Desde(izquierda, i)

agregar_restantes(resultado, izquierda, derecha, i, j) ==
    (resultado \o Desde(izquierda, i)) \o Desde(derecha, j)

RECURSIVE mezclar_bucle(_, _, _, _, _)
mezclar_bucle(izquierda, derecha, i, j, resultado) ==
    IF i < Len(izquierda) /\ j < Len(derecha)
    THEN IF toma_izquierda(izquierda, derecha, i, j)
         THEN mezclar_bucle(izquierda, derecha, i + 1, j, Append(resultado, izquierda[i + 1]))
         ELSE mezclar_bucle(izquierda, derecha, i, j + 1, Append(resultado, derecha[j + 1]))
    ELSE agregar_restantes(resultado, izquierda, derecha, i, j)

mezclar(izquierda, derecha) == mezclar_bucle(izquierda, derecha, 0, 0, <<>>)

----------------------------------------------------------------------------
(* merge_sort *)

\* <<productos[:medio], productos[medio:]>>
mitades_intercambiadas(s, medio) == <<Desde(s, medio), SubSeq(s, 1, medio)>>

mitades(s, medio) == <<SubSeq(s, 1, medio), Desde(s, medio)>>

\* The base case returns its argument itself, not a copy.
devuelve_la_entrada(s) == Len(s) <= 1

RECURSIVE merge_sort(_)
merge_sort(s) ==
    IF devuelve_la_entrada(s) THEN s
    ELSE LET medio == Len(s) \div 2
             izquierda == mitades(s, medio)[1]
             derecha == mitades(s, medio)[2]
             izquierda_ordenada == merge_sort(izquierda)
             derecha_ordenada == merge_sort(derecha)
         IN mezclar(izquierda_ordenada, derecha_ordenada)

----------------------------------------------------------------------------
(* analizar_datos *)

Min(a, b) == IF a <= b THEN a ELSE b

\* min(productos_5_estrellas, key=precio): the first product of lowest price
mas_barato(cinco) ==
    IF cinco = <<>> THEN None
    ELSE LET k == CHOOSE k \in 1..Len(cinco) :
                    /\ \A m \in 1..Len(cinco) : heap[cinco[k]].precio <= heap[cinco[m]].precio
                    /\ \A m \in 1..(k - 1) : heap[cinco[m]].precio > heap[cinco[k]].precio
         IN cinco[k]

\* The histogram loop raises KeyError on a rating that is no key of
\* {1: 0, ..., 5: 0}; the percentage loop divides by len(productos).
analizar_datos(s) ==
    LET claves == 1..MaxCalif
        conteo == [c \in claves |->
                      Cardinality({i \in 1..Len(s) : heap[s[i]].calificacion = c})]
        es_cinco(r) == heap[r].calificacion = MaxCalif
        cinco == SelectSeq(s, es_cinco)
    IN IF \E i \in 1..Len(s) : heap[s[i]].calificacion \notin claves
       THEN [error |-> "KeyError", calificaciones |-> None,
             cinco_estrellas |-> None, mas_barato_5 |-> None]
       ELSE IF Len(s) = 0
       THEN [error |-> "ZeroDivisionError", calificaciones |-> conteo,
             cinco_estrellas |-> None, mas_barato_5 |-> None]
       ELSE [error |-> None, calificaciones |-> conteo,
             cinco_estrellas |-> Len(cinco), mas_barato_5 |-> mas_barato(cinco)]

----------------------------------------------------------------------------
(* leer_csv, mostrar_mejores_productos, guardar_resultados *)

Tag(t, datos) == [tag |-> t, datos |-> datos]

\* One Producto per row, in file order; int()/float() raise ValueError on a
\* field that does not parse; only FileNotFoundError is caught.
leer_csv(f) ==
    IF ~f.existe
    THEN [error |-> None, productos |-> <<>>, consola |-> <<Tag("no_existe", <<>>)>>]
    ELSE IF \E i \in 1..Len(f.filas) : ~f.filas[i].valida
    THEN [error |-> "ValueError", productos |-> <<>>, consola |-> <<>>]
    ELSE [error |-> None,
          productos |-> [i \in 1..Len(f.filas) |->
                            Producto(i, "p", f.filas[i].precio, f.filas[i].calificacion, 0)],
          consola |-> <<Tag("leidos", <<Len(f.filas)>>)>>]

\* productos[:n]
mostrar_mejores_productos(s, n) == Tag("top", SubSeq(s, 1, Min(n, Len(s))))

\* The rows written after the header
guardar_resultados(s) == File([i \in 1..Len(s) |-> heap[s[i]]])

\* `if not productos`
catalogo_vacio_nunca(s) == FALSE

catalogo_vacio(s) == Len(s) = 0

----------------------------------------------------------------------------
(* The functions called directly on a catalog *)

Valores == [precio : Precios, calificacion : Calificaciones]

Init ==
    /\ pc = "entrada"
    /\ archivo = Missing
    /\ \E n \in 0..MaxLen : \E f \in [1..n -> Valores] :
          /\ heap = [i \in 1..n |-> Producto(i, "p", f[i].precio, f[i].calificacion, 0)]
          /\ lists = << [i \in 1..n |-> i] >>
    /\ productos = 1
    /\ productos_ordenados = None
    /\ reordenados = None
    /\ analisis = None
    /\ cmp = None
    /\ error = None
    /\ llamadas = <<>>
    /\ consola = <<>>
    /\ salida = NoFile

\* r = merge_sort(l): the reference returned and the list heap afterwards
Ordenar(l) ==
    IF devuelve_la_entrada(lists[l])
    THEN [ref |-> l, lists |-> lists]
    ELSE [ref |-> Len(lists) + 1, lists |-> Append(lists, merge_sort(lists[l]))]

LlamarMergeSort ==
    /\ pc = "entrada"
    /\ pc' = "ordenado"
    /\ productos_ordenados' = Ordenar(productos).ref
    /\ lists' = Ordenar(productos).lists
    /\ llamadas' = Append(llamadas, "merge_sort")
    /\ UNCHANGED <<archivo, heap, productos, reordenados, analisis, cmp, error,
                   consola, salida>>

LlamarMergeSortOtraVez ==
    /\ pc = "ordenado"
    /\ pc' = "reordenado"
    /\ reordenados' = Ordenar(productos_ordenados).ref
    /\ lists' = Ordenar(productos_ordenados).lists
    /\ llamadas' = Append(llamadas, "merge_sort")
    /\ UNCHANGED <<archivo, heap, productos, productos_ordenados, analisis, cmp,
                   error, consola, salida>>

LlamarAnalizarDatos ==
    /\ pc = "entrada"
    /\ pc' = "analizado"
    /\ analisis' = analizar_datos(lists[productos])
    /\ error' = analizar_datos(lists[productos]).error
    /\ llamadas' = Append(llamadas, "analizar_datos")
    /\ UNCHANGED <<archivo, heap, lists, productos, productos_ordenados,
                   reordenados, cmp, consola, salida>>

LlamarCompararProductos ==
    /\ pc = "entrada"
    /\ pc' = "comparado"
    /\ cmp' = [a \in DOMAIN heap, b \in DOMAIN heap |->
                  comparar_productos(heap[a], heap[b])]
    /\ llamadas' = Append(llamadas, "comparar_productos")
    /\ UNCHANGED <<archivo, heap, lists, productos, productos_ordenados,
                   reordenados, analisis, error, consola, salida>>

Next ==
    \/ LlamarMergeSort
    \/ LlamarMergeSortOtraVez
    \/ LlamarAnalizarDatos
    \/ LlamarCompararProductos

Spec == Init /\ [][Next]_vars

----------------------------------------------------------------------------
(* main *)

MainInit ==
    /\ pc = "inicio"
    /\ archivo \in {Missing} \cup {File(f) : f \in UNION {[1..n -> FileRows] : n \in 0..MaxRows}}
    /\ heap = <<>>
    /\ lists = <<>>
    /\ productos = None
    /\ productos_ordenados = None
    /\ reordenados = None
    /\ analisis = None
    /\ cmp = None
    /\ error = None
    /\ llamadas = <<>>
    /\ consola = <<>>
    /\ salida = NoFile

\* productos = leer_csv("productos.csv")
MainLeerCsv ==
    /\ pc = "inicio"
    /\ LET r == leer_csv(archivo)
       IN /\ llamadas' = Append(llamadas, "leer_csv")
          /\ consola' = consola \o r.consola
          /\ error' = r.error
          /\ IF r.error # None
             THEN /\ pc' = "crashed"
                  /\ UNCHANGED <<heap, lists, productos>>
             ELSE /\ pc' = "leido"
                  /\ heap' = r.productos
                  /\ lists' = << [i \in 1..Len(r.productos) |-> i] >>
                  /\ productos' = 1
    /\ UNCHANGED <<archivo, productos_ordenados, reordenados, analisis, cmp, salida>>

\* if not productos: print(...); return
MainSalir ==
    /\ pc = "leido"
    /\ catalogo_vacio(lists[productos])
    /\ pc' = "fin"
    /\ consola' = Append(consola, Tag("saliendo", <<>>))
    /\ UNCHANGED <<archivo, heap, lists, productos, productos_ordenados,
                   reordenados, analisis, cmp, error, llamadas, salida>>

\* for i in range(5): print(productos[i])
MainPreview ==
    /\ pc = "leido"
    /\ ~catalogo_vacio(lists[productos])
    /\ LET s == lists[productos]
       IN /\ consola' = Append(consola, Tag("preview", SubSeq(s, 1, Min(PreviewN, Len(s)))))
          /\ IF Len(s) < PreviewN
             THEN pc' = "crashed" /\ error' = "IndexError"
             ELSE pc' = "previsto" /\ error' = error
    /\ UNCHANGED <<archivo, heap, lists, productos, productos_ordenados,
                   reordenados, analisis, cmp, llamadas, salida>>

MainAnalizarDatos ==
    /\ pc = "previsto"
    /\ LET r == analizar_datos(lists[productos])
       IN /\ analisis' = r
          /\ error' = r.error
          /\ pc' = IF r.error # None THEN "crashed" ELSE "analizado"
    /\ llamadas' = Append(llamadas, "analizar_datos")
    /\ UNCHANGED <<archivo, heap, lists, productos, productos_ordenados,
                   reordenados, cmp, consola, salida>>

MainMergeSort ==
    /\ pc = "analizado"
    /\ pc' = "ordenado"
    /\ productos_ordenados' = Ordenar(productos).ref
    /\ lists' = Ordenar(productos).lists
    /\ llamadas' = Append(llamadas, "merge_sort")
    /\ UNCHANGED <<archivo, heap, productos, reordenados, analisis, cmp, error,
                   consola, salida>>

MainMostrarMejores ==
    /\ pc = "ordenado"
    /\ pc' = "mostrado"
    /\ consola' = Append(consola, mostrar_mejores_productos(lists[productos_ordenados], TopN))
    /\ llamadas' = Append(llamadas, "mostrar_mejores_productos")
    /\ UNCHANGED <<archivo, heap, lists, productos, productos_ordenados,
                   reordenados, analisis, cmp, error, salida>>

MainGuardarResultados ==
    /\ pc = "mostrado"
    /\ pc' = "fin"
    /\ salida' = guardar_resultados(lists[productos_ordenados])
    /\ llamadas' = Append(llamadas, "guardar_resultados")
    /\ consola' = Append(consola, Tag("guardado", <<>>))
    /\ UNCHANGED <<archivo, heap, lists, productos, productos_ordenados,
                   reordenados, analisis, cmp, error>>

MainNext ==
    \/ MainLeerCsv
    \/ MainSalir
    \/ MainPreview
    \/ MainAnalizarDatos
    \/ MainMergeSort
    \/ MainMostrarMejores
    \/ MainGuardarResultados

MainSpec == MainInit /\ [][MainNext]_vars

----------------------------------------------------------------------------
(* Properties *)

Entrada == lists[productos]
Ordenada == lists[productos_ordenados]

\* The catalog as the caller built it: the i-th Producto at position i.
EntradaOriginal == [i \in DOMAIN heap |-> i]

EmpateEn(s, i, j) ==
    /\ heap[s[i]].calificacion = heap[s[j]].calificacion
    /\ heap[s[i]].precio = heap[s[j]].precio

Pos(s, r) == CHOOSE k \in 1..Len(s) : s[k] = r

Veces(s, r) == Cardinality({k \in 1..Len(s) : s[k] = r})

\* C1: every adjacent pair (x, y) of the list merge_sort returns satisfies
\* comparar_productos(x, y) <= 0: x has the higher rating, or the same
\* rating and a price not greater than y's.
C1_SalidaOrdenada ==
    pc = "ordenado" =>
        \A k \in 1..(Len(Ordenada) - 1) :
            LET x == heap[Ordenada[k]]
                y == heap[Ordenada[k + 1]]
            IN /\ comparar_productos(x, y) <= 0
               /\ \/ x.calificacion > y.calificacion
                  \/ x.calificacion = y.calificacion /\ x.precio <= y.precio

\* A catalog of at least three products that merge_sort had to reorder, whose
\* output has a step down in rating and a step up in price at equal rating.
C1_Witness ==
    /\ pc = "ordenado"
    /\ Len(Entrada) >= 3
    /\ Ordenada # Entrada
    /\ \E k \in 1..(Len(Ordenada) - 1) :
          heap[Ordenada[k]].calificacion > heap[Ordenada[k + 1]].calificacion
    /\ \E k \in 1..(Len(Ordenada) - 1) :
          /\ heap[Ordenada[k]].calificacion = heap[Ordenada[k + 1]].calificacion
          /\ heap[Ordenada[k]].precio < heap[Ordenada[k + 1]].precio

\* C2: merge_sort is stable: two products of equal rating and equal price
\* appear in the output in the order they have in the input.
C2_Estable ==
    pc = "ordenado" =>
        \A i \in 1..Len(Entrada) : \A j \in 1..Len(Entrada) :
            (i < j /\ EmpateEn(Entrada, i, j)) =>
                Pos(Ordenada, Entrada[i]) < Pos(Ordenada, Entrada[j])

\* Two tied products from different halves of the split, with a product that
\* sorts after them placed before them in the input.
C2_Witness ==
    /\ pc = "ordenado"
    /\ Len(Entrada) >= 4
    /\ Ordenada # Entrada
    /\ \E i \in 1..(Len(Entrada) \div 2) :
       \E j \in ((Len(Entrada) \div 2) + 1)..Len(Entrada) :
          /\ EmpateEn(Entrada, i, j)
          /\ \E k \in 1..(i - 1) :
                comparar_productos(heap[Entrada[k]], heap[Entrada[i]]) > 0

\* C3: the list merge_sort returns is a permutation of its input: the same
\* length and every Producto object as many times as in the input.
C3_Permutacion ==
    pc = "ordenado" =>
        /\ Len(Ordenada) = Len(Entrada)
        /\ \A r \in DOMAIN heap : Veces(Ordenada, r) = Veces(Entrada, r)

\* An odd-length catalog whose merge ends with a remainder of the right half
\* (the last product of the input is also last in the output) after reordering.
C3_Witness ==
    /\ pc = "ordenado"
    /\ Len(Entrada) = 3
    /\ Ordenada # Entrada
    /\ Ordenada[3] = Entrada[3]

\* C4: comparar_productos is the two-key rule by sign (negative: a before b,
\* positive: b before a, 0: equal rating and price), rating decides before
\* price, and the relation is a strict weak ordering.
C4_ReglaDeDosClaves ==
    pc = "comparado" =>
        /\ \A a \in DOMAIN heap : \A b \in DOMAIN heap :
              LET x == heap[a]
                  y == heap[b]
              IN /\ cmp[a, b] < 0 <=>
                       \/ x.calificacion > y.calificacion
                       \/ x.calificacion = y.calificacion /\ x.precio < y.precio
                 /\ cmp[a, b] > 0 <=>
                       \/ x.calificacion < y.calificacion
                       \/ x.calificacion = y.calificacion /\ x.precio > y.precio
                 /\ cmp[a, b] = 0 <=>
                       (x.calificacion = y.calificacion /\ x.precio = y.precio)
                 /\ cmp[a, b] < 0 <=> cmp[b, a] > 0
        /\ \A a \in DOMAIN heap : ~(cmp[a, a] < 0)
        /\ \A a \in DOMAIN heap : \A b \in DOMAIN heap : \A c \in DOMAIN heap :
              /\ (cmp[a, b] < 0 /\ cmp[b, c] < 0) => cmp[a, c] < 0
              /\ (cmp[a, b] = 0 /\ cmp[b, c] = 0) => cmp[a, c] = 0

\* Three products in a chain a before b before c, where a beats b on rating
\* although a costs more, and two distinct products that compare equal.
C4_Witness ==
    /\ pc = "comparado"
    /\ \E a \in DOMAIN heap : \E b \in DOMAIN heap : \E c \in DOMAIN heap :
          /\ cmp[a, b] < 0 /\ cmp[b, c] < 0
          /\ heap[a].calificacion > heap[b].calificacion
          /\ heap[a].precio > heap[b].precio
          /\ heap[b].calificacion = heap[c].calificacion
    /\ \E a \in DOMAIN heap : \E b \in DOMAIN heap : a # b /\ cmp[a, b] = 0

\* C5: merge_sort(merge_sort(L)) is the same sequence of Producto objects
\* as merge_sort(L); an empty list sorts to an empty list and a one-element
\* list to that element.
C5_Idempotente ==
    /\ pc = "reordenado" => lists[reordenados] = Ordenada
    /\ (pc = "ordenado" /\ Len(Entrada) = 0) => Ordenada = <<>>
    /\ (pc = "ordenado" /\ Len(Entrada) = 1) => Ordenada = <<Entrada[1]>>

\* A second sort of a catalog that the first sort reordered and that holds
\* tied products.
C5_Witness ==
    /\ pc = "reordenado"
    /\ Len(Entrada) >= 3
    /\ Ordenada # Entrada
    /\ \E i \in 1..Len(Entrada) : \E j \in 1..Len(Entrada) :
          i < j /\ EmpateEn(Entrada, i, j)

\* C6: analizar_datos never fails with a division fault, also when it is
\* called with an empty sequence of products.
C6_SinFalloDeDivision ==
    pc = "analizado" => analisis.error # "ZeroDivisionError"

\* C9: merge_sort leaves its input as it was and returns a list that is a
\* distinct list object from its input, for every input length.
C9_SecuenciaNueva ==
    pc = "ordenado" =>
        /\ Entrada = EntradaOriginal
        /\ productos_ordenados # productos

\* C7: on a missing file leer_csv reports and returns an empty list without
\* raising; whenever the loader yields an empty list main returns at once:
\* no other function is invoked and no output file is written.
C7_CatalogoVacioAborta ==
    /\ (pc # "inicio" /\ ~archivo.existe) =>
          /\ error = None
          /\ Entrada = <<>>
          /\ consola[1].tag = "no_existe"
    /\ (pc # "inicio" /\ error # "ValueError" /\ Entrada = <<>>) =>
          /\ pc \in {"leido", "fin"}
          /\ error = None
          /\ llamadas = <<"leer_csv">>
          /\ ~salida.existe

\* main has returned after finding productos.csv missing.
C7_Witness ==
    /\ pc = "fin"
    /\ ~archivo.existe
    /\ llamadas = <<"leer_csv">>
    /\ consola[Len(consola)].tag = "saliendo"

\* C8: every Producto the loader places in the catalog has a rating in 1..5
\* and a price >= 0, so analizar_datos never meets a rating outside its keys.
C8_CatalogoValido ==
    /\ \A r \in DOMAIN heap :
          /\ heap[r].calificacion \in 1..MaxCalif
          /\ heap[r].precio >= 0
    /\ error # "KeyError"

\* C10: for every non-empty catalog the preview never indexes past the end
\* of the catalog (and main goes on to analyse, sort, show and save).
C10_PreviewDentroDelCatalogo ==
    (pc # "inicio" /\ error # "ValueError" /\ Entrada # <<>>) => error # "IndexError"

====
